---- MODULE Spec2Model ----
(***************************************************************************)
(* Model of maggma's incremental builders (examples/builders.py), the     *)
(* timestamp helpers of utils.py and the JointStore and ConcatStore of    *)
(* stores/compound_stores.py.                                             *)
(*                                                                         *)
(* Documents are functions from field names to values.  A native (stored) *)
(* timestamp of the source is an ISO-8601 string; it is modelled by the   *)
(* integer n = sec * Base + c, c = 0 for a string without a fraction      *)
(* ("...T00:00:01") and c = f + 1 for fraction f ("...T00:00:01.f"), so   *)
(* that the integer order of the codes is the string order of the         *)
(* stored values.  A canonical timestamp (datetime) is sec * Res + f.     *)
(***************************************************************************)
EXTENDS Integers, Sequences, FiniteSets, TLC

VARIABLES
    source,          \* source store: sequence of documents (natural order)
    target,          \* target store: set of documents, unique by key
    target_lu_field, \* target.lu_field (source.lu_field is SourceLu)
    query,           \* MapBuilder.query, the caller-supplied filter
    query0,          \* the query as the caller passed it to the constructor
    incremental,     \* MapBuilder.incremental
    unit,            \* bytes per criteria element as measured by total_size
    ufnKind,         \* which ufn the builder subclass defines
    pc,              \* position of the builder cycle
    run,             \* number of the current run (1-based)
    lastRun,         \* number of runs the caller performs
    keys_updated,    \* result of the last source_keys_updated call
    criteria,        \* result of the last get_criteria call
    size,            \* total_size(criteria) of the last call, -1 if not reached
    ranKeys,         \* did the last get_criteria call run source_keys_updated
    items,           \* cursor returned by get_items, as a sequence
    outs,            \* process_item results, one per item processed so far
    fails,           \* for each processed item: did ufn raise
    committed,       \* documents of the last target.update call
    hist,            \* per finished run: [n_items, n_commits, changed, selected,
                     \*   failed, source]
    clock,           \* datetime.utcnow(), a counter
    srcChanged,      \* was the source modified since the last finished run
    stores,          \* ConcatStore.stores: sequence of member stores
    gb_out,          \* outcome of the last ConcatStore.groupby call
    cs_out,          \* outcome of the last other ConcatStore call
    collections,     \* the database of a JointStore: collection name -> documents
    master,          \* JointStore.master
    merge_at_root,   \* JointStore.merge_at_root
    js_out,          \* outcome of the last JointStore call
    total,           \* GroupBuilder.total
    n_items_per_group \* the GroupBuilder subclass's attribute, if it has one

vars == << source, target, target_lu_field, query, query0, incremental, unit, ufnKind,
           pc, run, lastRun, keys_updated, criteria, size, ranKeys, items, outs, fails,
           committed, hist, clock, srcChanged, stores, gb_out, cs_out,
           collections, master, merge_at_root, js_out, total, n_items_per_group >>

builderVars == << source, target, target_lu_field, query, query0, incremental, unit,
                  ufnKind, pc, run, lastRun, keys_updated, criteria, size, ranKeys, items,
                  outs, fails, committed, hist, clock, srcChanged >>

concatVars == << stores, gb_out, cs_out >>

jointVars == << collections, master, merge_at_root, js_out >>

groupVars == << total, n_items_per_group >>

\* Python's None, and a value that is not None
None == [isNone |-> TRUE, v |-> 0]
Val(x) == [isNone |-> FALSE, v |-> x]

(***************************************************************************)
(* Bounds of the model.                                                    *)
(***************************************************************************)
MaxSrc == 2
MaxRuns == 2

SourceKeys == {1, 2}
TargetKeys == {1, 2, 3}
Secs == {0, 1}
Fracs == {0, 1}

Res == Cardinality(Fracs)
Base == Res + 1
Natives == {s * Base + c : s \in Secs, c \in 0..Res}
Canonicals == {s * Res + f : s \in Secs, f \in Fracs}

(***************************************************************************)
(* Field names.                                                            *)
(***************************************************************************)
KeyField == "task_id"
SourceLu == "last_updated"
TargetLuNames == {"last_updated", "_lu"}

(***************************************************************************)
(* utils.isostr_to_dt: parse with the fractional format, and on ValueError *)
(* with the format without a fraction.                                     *)
(***************************************************************************)
isostr_to_dt(s) ==
    IF s % Base # 0
    THEN (s \div Base) * Res + ((s % Base) - 1)
    ELSE (s \div Base) * Res

\* source.lu_func[0], the decode half of LU_KEY_ISOFORMAT
lu_func_0(s) == isostr_to_dt(s)

(***************************************************************************)
(* Store.query(properties=[key, lu_field], sort=[(lu_field, -1), (key, 1)])*)
(* as a sequence of [key, lu] pairs.                                       *)
(***************************************************************************)
Before(a, b) == \/ a.lu > b.lu
                \/ a.lu = b.lu /\ a.key < b.key

RECURSIVE SortPairs(_)
SortPairs(s) ==
    IF s = << >> THEN << >>
    ELSE LET i == CHOOSE i \in 1..Len(s) :
                    \A j \in 1..Len(s) : ~Before(s[j], s[i])
             rest == [k \in 1..(Len(s) - 1) |-> IF k < i THEN s[k] ELSE s[k + 1]]
         IN  << s[i] >> \o SortPairs(rest)

SetToSeq(S) ==
    CHOOSE f \in [1..Cardinality(S) -> S] : \A x \in S : \E i \in DOMAIN f : f[i] = x

cursor_source(src) ==
    SortPairs([i \in 1..Len(src) |-> [key |-> src[i][KeyField], lu |-> src[i][SourceLu]]])

cursor_target(tgt, tlu) ==
    SortPairs(SetToSeq({[key |-> d[KeyField], lu |-> d[tlu]] : d \in tgt}))

(***************************************************************************)
(* source_keys_updated: the merge walk over the two cursors.               *)
(***************************************************************************)
TargetOlderReversed(tlu, slu) == lu_func_0(slu) < tlu

\* line 37: tdoc[target.lu_field] < source.lu_func[0](sdoc[source.lu_field])
TargetOlder(tlu, slu) == tlu < lu_func_0(slu)

RECURSIVE walk(_, _, _, _, _)
walk(cs, ct, i, j, acc) ==
    IF i > Len(cs) THEN acc
    ELSE IF j > Len(ct)
         THEN walk(cs, ct, i + 1, j, acc \cup {cs[i].key})
    ELSE IF ct[j].key = cs[i].key
         THEN walk(cs, ct, i + 1, j + 1,
                   IF TargetOlder(ct[j].lu, cs[i].lu)
                   THEN acc \cup {cs[i].key} ELSE acc)
    ELSE walk(cs, ct, i + 1, j, acc \cup {cs[i].key})

source_keys_updated(src, tgt, tlu) ==
    walk(cursor_source(src), cursor_target(tgt, tlu), 1, 1, {})

(***************************************************************************)
(* Store contents.                                                         *)
(***************************************************************************)
SourceDoc(i, k, lu) == ("_id" :> i) @@ (KeyField :> k) @@ (SourceLu :> lu)

SourcesOfLen(n) ==
    { [i \in 1..n |-> SourceDoc(i, f[i][1], f[i][2])] :
        f \in [1..n -> SourceKeys \X Natives] }

Sources == UNION { SourcesOfLen(n) : n \in 0..MaxSrc }

TargetDoc(k, lu, tlu) == (KeyField :> k) @@ (tlu :> lu)

Targets(tlu) ==
    { { TargetDoc(k, f[k], tlu) : k \in DOMAIN f } :
        f \in UNION { [K -> Canonicals] : K \in SUBSET TargetKeys } }

NoQuery == [k \in {} |-> 0]

(***************************************************************************)
(* Specification of source_keys_updated alone: the stores are drawn, the   *)
(* function is applied.                                                    *)
(***************************************************************************)
\* no call made yet on a composite store
NoCall == [status |-> "none", op |-> "none", docs |-> << >>, skip |-> 0, limit |-> 0,
           failed |-> FALSE]

ConcatIdle ==
    /\ stores = << >>
    /\ gb_out = [status |-> "none"]
    /\ cs_out = NoCall

JointIdle ==
    /\ collections = << >>
    /\ master = ""
    /\ merge_at_root = FALSE
    /\ js_out = NoCall

\* a builder that is no GroupBuilder: no total, no n_items_per_group
Undeclared == [declared |-> FALSE, isInt |-> FALSE, v |-> 0]

GroupIdle == total = None /\ n_items_per_group = Undeclared

BuilderRest ==
    /\ run = 1
    /\ keys_updated = {}
    /\ query0 = query
    /\ criteria = NoQuery
    /\ size = -1
    /\ ranKeys = FALSE
    /\ items = << >>
    /\ outs = << >>
    /\ fails = << >>
    /\ committed = << >>
    /\ hist = << >>
    /\ clock = 0
    /\ srcChanged = FALSE

KeysInit ==
    /\ source \in Sources
    /\ target_lu_field = "last_updated"
    /\ target \in Targets(target_lu_field)
    /\ query = NoQuery
    /\ incremental = TRUE
    /\ unit = 1
    /\ ufnKind = "copy"
    /\ lastRun = 1
    /\ pc = "idle"
    /\ BuilderRest
    /\ ConcatIdle
    /\ JointIdle
    /\ GroupIdle

CallSourceKeysUpdated ==
    /\ pc = "idle"
    /\ keys_updated' = source_keys_updated(source, target, target_lu_field)
    /\ pc' = "keys"
    /\ UNCHANGED << source, target, target_lu_field, query, query0, incremental, unit,
                    ufnKind, run, lastRun, criteria, size, ranKeys, items, outs, fails, committed, hist, clock,
                    srcChanged >>
    /\ UNCHANGED << concatVars, jointVars, groupVars >>

KeysNext == CallSourceKeysUpdated

KeysSpec == KeysInit /\ [][KeysNext]_vars

(***************************************************************************)
(* Criteria: a dict from field names to constraints, with an optional      *)
(* "$and" entry holding a list of such dicts.  A constraint is an operator *)
(* dict ({"$in": [..]}, {"$gte": v}) or a bare value (equality).           *)
(***************************************************************************)
In(S) == [op |-> "$in", arg |-> S]
Gte(v) == [op |-> "$gte", arg |-> v]
Scalar(v) == [op |-> "scalar", arg |-> v]

IsDict(c) == c.op # "scalar"

Clauses ==
    { KeyField :> c : c \in {In({1}), In({1, 2}), Scalar(1)} }
    \cup { SourceLu :> Gte(Base) }

Queries ==
    {NoQuery}
    \cup Clauses
    \cup { "$and" :> << cl >> : cl \in Clauses }
    \cup { ("$and" :> << SourceLu :> Gte(Base) >>) @@ cl :
             cl \in { KeyField :> c : c \in {In({1, 2}), Scalar(2)} } }

\* Store.query(criteria=...): does document d satisfy the criteria
Sat(v, c) ==
    CASE c.op = "$in"  -> v \in c.arg
      [] c.op = "$gte" -> v >= c.arg
      [] OTHER         -> v = c.arg

MatchFlat(d, cl) ==
    \A f \in DOMAIN cl : f \in DOMAIN d /\ Sat(d[f], cl[f])

Match(d, c) ==
    /\ MatchFlat(d, [f \in DOMAIN c \ {"$and"} |-> c[f]])
    /\ "$and" \in DOMAIN c => \A i \in 1..Len(c["$and"]) : MatchFlat(d, c["$and"][i])

Remove(d, f) == [g \in DOMAIN d \ {f} |-> d[g]]

(***************************************************************************)
(* utils.total_size is not part of the sources at hand; it is modelled as  *)
(* a count of the criteria's entries scaled by the byte size of one entry. *)
(***************************************************************************)
Units == {1, 3200000, 4000000, 5333333, 8000000}

ConsWeight(c) == IF c.op = "$in" THEN 1 + Cardinality(c.arg) ELSE 1

FlatWeight(cl) ==
    (IF KeyField \in DOMAIN cl THEN ConsWeight(cl[KeyField]) ELSE 0)
    + (IF SourceLu \in DOMAIN cl THEN ConsWeight(cl[SourceLu]) ELSE 0)

RECURSIVE SeqWeight(_)
SeqWeight(s) == IF s = << >> THEN 0 ELSE 1 + FlatWeight(Head(s)) + SeqWeight(Tail(s))

total_size(c, u) ==
    u * (1 + FlatWeight(c) + (IF "$and" \in DOMAIN c THEN SeqWeight(c["$and"]) ELSE 0))

\* 16 * 1000 * 1000, the MongoDB document size limit as estimated by the code
DocSizeLimit == 16000000

TooLargeStrict(sz) == sz > DocSizeLimit

\* line 89: (total_size(criteria) / (16 * 1000 * 1000)) >= 1; the quotient is
\* at least 1 exactly when its integer part is
TooLarge(sz) == (sz \div DocSizeLimit) >= 1

(***************************************************************************)
(* get_criteria.  The result records how the call ended, the criteria, the *)
(* caller's query after the call (criteria.update(query) copies the top    *)
(* level only, so the list under "$and" is shared with the caller's        *)
(* query), the keys computed if source_keys_updated ran, and the size      *)
(* measured at line 89.                                                    *)
(***************************************************************************)
\* lines 78-82: move the direct constraint and the $in under a new "$and"
MergeDirect(c, keys) ==
    ("$and" :> << KeyField :> c[KeyField], KeyField :> In(keys) >>) @@ Remove(c, KeyField)

\* line 75: criteria["$and"].append({source.key: {"$in": keys_updated}})
MergeAnd(c, keys) ==
    ("$and" :> Append(c["$and"], KeyField :> In(keys))) @@ c

\* line 84: criteria.update({source.key: {"$in": keys_updated}})
MergePlain(c, keys) == (KeyField :> In(keys)) @@ c

\* lines 89-96: the size check and the return
SizeChecked(r, u) ==
    LET sz == total_size(r.criteria, u)
    IN  IF TooLarge(sz)
        THEN [r EXCEPT !.status = "RuntimeError", !.size = sz]
        ELSE [r EXCEPT !.size = sz]

Result(q) ==
    [status |-> "ok", criteria |-> q, query |-> q, ran |-> FALSE, keys |-> {},
     size |-> -1]

\* lines 69-84: the incremental branch
Incremental(src, tgt, tlu, q, u) ==
    LET keys == source_keys_updated(src, tgt, tlu)
        r == [Result(q) EXCEPT !.ran = TRUE, !.keys = keys]
    IN  IF "$and" \in DOMAIN q
        THEN SizeChecked([r EXCEPT !.criteria = MergeAnd(q, keys),
                                   !.query = MergeAnd(q, keys)], u)
        ELSE IF KeyField \in DOMAIN q
        THEN IF IsDict(q[KeyField])
             THEN SizeChecked([r EXCEPT !.criteria = MergeDirect(q, keys)], u)
             ELSE [r EXCEPT !.status = "AttributeError"]   \* line 79: .copy()
        ELSE SizeChecked([r EXCEPT !.criteria = MergePlain(q, keys)], u)

get_criteria_ignoring_flag(src, tgt, tlu, q, inc, u) == Incremental(src, tgt, tlu, q, u)

get_criteria(src, tgt, tlu, q, inc, u) ==
    IF inc THEN Incremental(src, tgt, tlu, q, u) ELSE SizeChecked(Result(q), u)

(***************************************************************************)
(* MapBuilder.ufn is abstract.  A builder has one ufn; whether it raises   *)
(* for an item depends on data outside the model and is drawn per item.    *)
(***************************************************************************)
UfnKinds == {"copy", "value", "restamp", "rekey"}

OtherLu(lu) == IF lu = 0 THEN Base ELSE 0

ufn(kind, item) ==
    CASE kind = "copy"    -> item                         \* CopyBuilder.ufn
      [] kind = "value"   -> ("value" :> 2 * item[KeyField])
      [] kind = "restamp" -> ("value" :> 2 * item[KeyField])
                             @@ (SourceLu :> OtherLu(item[SourceLu]))
      [] OTHER            -> ("value" :> 2 * item[KeyField])
                             @@ (KeyField :> 3) @@ ("_id" :> 0)

MayRaise(kind) == kind # "copy"

ErrMsg == "boom"

\* lines 159-163: the value of `processed`
Processed(kind, item, raises) ==
    IF raises THEN ("error" :> ErrMsg) ELSE ufn(kind, item)

ErrorDocWithoutKey(item, processed) == processed @@ (SourceLu :> item[SourceLu])

\* lines 164-167: out = {key: item[key], lu_field: item[lu_field]}; out.update(processed)
OutDoc(item, processed) ==
    processed @@ (KeyField :> item[KeyField]) @@ (SourceLu :> item[SourceLu])

process_item(kind, item, raises) == OutDoc(item, Processed(kind, item, raises))

\* lines 173-178: one pass of the loop of update_targets
Finalize(d, tlu, now) ==
    LET d1 == (tlu :> lu_func_0(d[SourceLu])) @@ d
        d2 == IF SourceLu # tlu THEN Remove(d1, SourceLu) ELSE d1
        d3 == ("_bt" :> now) @@ d2
    IN  IF "_id" \in DOMAIN d3 THEN Remove(d3, "_id") ELSE d3

\* target.update(items, update_lu=False): upsert by key, in order
RECURSIVE Upsert(_, _)
Upsert(tgt, docs) ==
    IF docs = << >> THEN tgt
    ELSE Upsert({ d \in tgt : d[KeyField] # Head(docs)[KeyField] } \cup {Head(docs)},
                Tail(docs))

(***************************************************************************)
(* The builder cycle: get_items, process_item per item, update_targets.    *)
(***************************************************************************)
GetItems ==
    /\ pc = "idle"
    /\ run <= lastRun
    /\ LET r == get_criteria(source, target, target_lu_field, query, incremental, unit)
       IN  /\ query' = r.query
           /\ keys_updated' = r.keys
           /\ size' = r.size
           /\ ranKeys' = r.ran
           /\ IF r.status = "ok"
              THEN /\ criteria' = r.criteria
                   /\ items' = SelectSeq(source, LAMBDA d : Match(d, r.criteria))
                   /\ pc' = "items"
              ELSE /\ criteria' = NoQuery
                   /\ items' = << >>
                   /\ pc' = r.status
    /\ outs' = << >>
    /\ fails' = << >>
    /\ UNCHANGED << source, target, target_lu_field, query0, incremental, unit,
                    ufnKind, run, lastRun, committed, hist, clock, srcChanged >>
    /\ UNCHANGED << concatVars, jointVars, groupVars >>

ProcessItem ==
    /\ pc = "items"
    /\ Len(outs) < Len(items)
    /\ \E raises \in {FALSE} \cup {MayRaise(ufnKind)} :
          /\ outs' = Append(outs, process_item(ufnKind, items[Len(outs) + 1], raises))
          /\ fails' = Append(fails, raises)
    /\ UNCHANGED << source, target, target_lu_field, query, query0, incremental,
                    unit, ufnKind, pc, run, lastRun, keys_updated, criteria, size,
                    ranKeys, items, committed, hist, clock, srcChanged >>
    /\ UNCHANGED << concatVars, jointVars, groupVars >>

UpdateTargets ==
    /\ pc = "items"
    /\ Len(outs) = Len(items)
    /\ LET docs == [i \in 1..Len(outs) |-> Finalize(outs[i], target_lu_field, clock)]
       IN  /\ committed' = docs
           /\ target' = Upsert(target, docs)
           /\ hist' = Append(hist, [n_items |-> Len(items), n_commits |-> Len(docs),
                                    changed |-> srcChanged,
                                    selected |-> keys_updated,
                                    failed |-> { items[i][KeyField] :
                                                   i \in { j \in 1..Len(items) : fails[j] } },
                                    source |-> source])
    /\ clock' = clock + 1
    /\ run' = run + 1
    /\ pc' = "idle"
    /\ srcChanged' = FALSE
    /\ UNCHANGED << source, target_lu_field, query, query0, incremental, unit,
                    ufnKind, lastRun, keys_updated, criteria, size, ranKeys, items,
                    outs, fails >>
    /\ UNCHANGED << concatVars, jointVars, groupVars >>

\* the source store is written by its owner between two runs: one document
\* gets a strictly greater last-updated value
TouchSource ==
    /\ pc = "idle"
    /\ run > 1
    /\ run <= lastRun
    /\ ~srcChanged
    /\ \E i \in 1..Len(source) : \E n \in Natives :
          /\ lu_func_0(n) > lu_func_0(source[i][SourceLu])
          /\ source' = [source EXCEPT ![i] = (SourceLu :> n) @@ source[i]]
    /\ srcChanged' = TRUE
    /\ UNCHANGED << target, target_lu_field, query, query0, incremental, unit,
                    ufnKind, pc, run, lastRun, keys_updated, criteria, size, ranKeys,
                    items, outs, fails, committed, hist, clock >>
    /\ UNCHANGED << concatVars, jointVars, groupVars >>

Next == GetItems \/ ProcessItem \/ UpdateTargets \/ TouchSource

(***************************************************************************)
(* The incremental builder cycle over drawn stores, without a query.       *)
(***************************************************************************)
CycleSourceLus == {0, 1, Base}

CycleSources == { s \in Sources : \A i \in 1..Len(s) : s[i][SourceLu] \in CycleSourceLus }

CycleTargetLus == {0, Res}

CycleTargets(tlu) ==
    { { TargetDoc(k, f[k], tlu) : k \in DOMAIN f } :
        f \in UNION { [K -> CycleTargetLus] : K \in SUBSET TargetKeys } }

Init ==
    /\ source \in CycleSources
    /\ target_lu_field \in TargetLuNames
    /\ target \in CycleTargets(target_lu_field)
    /\ query = NoQuery
    /\ incremental = TRUE
    /\ unit = 1
    /\ ufnKind \in UfnKinds
    /\ lastRun = MaxRuns
    /\ pc = "idle"
    /\ BuilderRest
    /\ ConcatIdle
    /\ JointIdle
    /\ GroupIdle

Spec == Init /\ [][Next]_vars

(***************************************************************************)
(* One run of the builder cycle, for every ufn.                            *)
(***************************************************************************)
ProcSources == { s \in Sources : \A i \in 1..Len(s) : s[i][SourceLu] \in {0, Base} }

ProcInit ==
    /\ source \in ProcSources
    /\ target_lu_field \in TargetLuNames
    /\ target \in { {}, {TargetDoc(1, 0, target_lu_field)} }
    /\ query = NoQuery
    /\ incremental = TRUE
    /\ unit = 1
    /\ ufnKind \in UfnKinds
    /\ lastRun = 1
    /\ pc = "idle"
    /\ BuilderRest
    /\ ConcatIdle
    /\ JointIdle
    /\ GroupIdle

ProcNext == GetItems \/ ProcessItem \/ UpdateTargets

ProcSpec == ProcInit /\ [][ProcNext]_vars

(***************************************************************************)
(* get_criteria over drawn queries, modes and entry sizes; get_items is    *)
(* the caller.                                                             *)
(***************************************************************************)
CriteriaTargets == { {}, {TargetDoc(1, 0, "last_updated")}, {TargetDoc(1, Res, "last_updated")} }

CriteriaInit ==
    /\ source \in ProcSources
    /\ target_lu_field = "last_updated"
    /\ target \in CriteriaTargets
    /\ query \in Queries
    /\ incremental \in BOOLEAN
    /\ unit \in Units
    /\ ufnKind = "copy"
    /\ lastRun = 1
    /\ pc = "idle"
    /\ BuilderRest
    /\ ConcatIdle
    /\ JointIdle
    /\ GroupIdle

CriteriaNext == GetItems

CriteriaSpec == CriteriaInit /\ [][CriteriaNext]_vars

(***************************************************************************)
(* The first builds of an empty target from a source with unique keys, by  *)
(* a ufn that returns neither the key nor the last-updated field.          *)
(***************************************************************************)
RetryInit ==
    /\ source \in { s \in CycleSources :
                      \A i, j \in 1..Len(s) : s[i][KeyField] = s[j][KeyField] => i = j }
    /\ target_lu_field \in TargetLuNames
    /\ target = {}
    /\ query = NoQuery
    /\ incremental = TRUE
    /\ unit = 1
    /\ ufnKind \in {"copy", "value"}
    /\ lastRun = MaxRuns
    /\ pc = "idle"
    /\ BuilderRest
    /\ ConcatIdle
    /\ JointIdle
    /\ GroupIdle

RetrySpec == RetryInit /\ [][Next]_vars

(***************************************************************************)
(* Successive runs of one builder that was given a query.                  *)
(***************************************************************************)
RerunInit ==
    /\ source \in ProcSources
    /\ target_lu_field = "last_updated"
    /\ target \in CriteriaTargets
    /\ query \in Queries
    /\ incremental = TRUE
    /\ unit = 1
    /\ ufnKind = "copy"
    /\ lastRun = MaxRuns
    /\ pc = "idle"
    /\ BuilderRest
    /\ ConcatIdle
    /\ JointIdle
    /\ GroupIdle

RerunSpec == RerunInit /\ [][Next]_vars

(***************************************************************************)
(* GroupBuilder.  docs_to_groups and group_to_items are abstract; the      *)
(* builder modelled here groups by the key ("a set of unique document      *)
(* keys") and yields the documents of a group as its items.  A subclass    *)
(* may declare n_items_per_group, with a value of any type.                *)
(***************************************************************************)
Declared(isInt, v) == [declared |-> TRUE, isInt |-> isInt, v |-> v]

ItemCounts == {Undeclared} \cup { Declared(TRUE, v) : v \in 0..2 } \cup {Declared(FALSE, 2)}

\* docs_to_groups: the keys of the documents, each once, in order of appearance
RECURSIVE docs_to_groups(_)
docs_to_groups(docs) ==
    IF docs = << >> THEN << >>
    ELSE << Head(docs)[KeyField] >>
         \o docs_to_groups(SelectSeq(Tail(docs), LAMBDA d : d[KeyField] # Head(docs)[KeyField]))

\* group_to_items, for every group in turn
RECURSIVE group_to_items(_, _)
group_to_items(groups, docs) ==
    IF groups = << >> THEN << >>
    ELSE SelectSeq(docs, LAMBDA d : d[KeyField] = Head(groups))
         \o group_to_items(Tail(groups), docs)

\* lines 221-225: total = len(groups), times n_items_per_group if the builder
\* has the attribute and it is an int >= 1
Total(n_groups, n) ==
    IF n.declared /\ n.isInt /\ n.v >= 1 THEN Val(n_groups * n.v) ELSE Val(n_groups)

\* GroupBuilder.get_items, run up to its first yield
GroupGetItems ==
    /\ pc = "idle"
    /\ run <= lastRun
    /\ LET r == get_criteria(source, target, target_lu_field, query, incremental, unit)
           groups == docs_to_groups(SelectSeq(source, LAMBDA d : Match(d, r.criteria)))
       IN  /\ query' = r.query
           /\ keys_updated' = r.keys
           /\ size' = r.size
           /\ ranKeys' = r.ran
           /\ IF r.status = "ok"
              THEN /\ criteria' = r.criteria
                   /\ total' = Total(Len(groups), n_items_per_group)
                   /\ items' = group_to_items(groups, source)
                   /\ pc' = "items"
              ELSE /\ criteria' = NoQuery
                   /\ total' = total
                   /\ items' = << >>
                   /\ pc' = r.status
    /\ outs' = << >>
    /\ fails' = << >>
    /\ UNCHANGED << source, target, target_lu_field, query0, incremental, unit,
                    ufnKind, run, lastRun, committed, hist, clock, srcChanged >>
    /\ UNCHANGED n_items_per_group
    /\ UNCHANGED << concatVars, jointVars >>

GroupInit ==
    /\ source \in ProcSources
    /\ target_lu_field = "last_updated"
    /\ target \in CriteriaTargets
    /\ query \in {NoQuery, KeyField :> Scalar(1)}
    /\ incremental \in BOOLEAN
    /\ unit = 1
    /\ ufnKind \in {"copy", "value"}
    /\ lastRun = 1
    /\ pc = "idle"
    /\ BuilderRest
    /\ total = None
    /\ n_items_per_group \in ItemCounts
    /\ ConcatIdle
    /\ JointIdle

GroupNext == GroupGetItems \/ ProcessItem \/ UpdateTargets

GroupSpec == GroupInit /\ [][GroupNext]_vars

(***************************************************************************)
(* ConcatStore.  A member store is a sequence of documents; a document has *)
(* an _id and a group field "g" that holds a number, or is null or         *)
(* missing.  groupby is called with keys = ["g"].                          *)
(***************************************************************************)
MaxStores == 2
MaxDocs == 2

GroupField == "g"
GroupValues == {1, 2}

MemberDoc(id, g) ==
    IF g = None THEN ("_id" :> id) ELSE ("_id" :> id) @@ (GroupField :> g.v)

\* the group values of the documents of one member store, in order
MemberShapes ==
    UNION { [1..n -> {None} \cup { Val(x) : x \in GroupValues }] : n \in 0..MaxDocs }

\* the member store number sid with these group values; ids are unique
StoreOf(sid, shape) ==
    [i \in 1..Len(shape) |-> MemberDoc(sid * (MaxDocs + 1) + i, shape[i])]

MemberStores(sid) == { StoreOf(sid, shape) : shape \in MemberShapes }

\* lines 405-408: tuple(d.get(k, None) for k in keys), for the one key
key_set(d) == IF GroupField \in DOMAIN d THEN Val(d[GroupField]) ELSE None

\* the member store's own groupby: its documents, group after group in the
\* order of the groups' first documents
RECURSIVE MemberGroups(_)
MemberGroups(docs) ==
    IF docs = << >> THEN << >>
    ELSE LET k == key_set(Head(docs))
         IN  << SelectSeq(docs, LAMBDA d : key_set(d) = k) >>
             \o MemberGroups(SelectSeq(docs, LAMBDA d : key_set(d) # k))

RECURSIVE Flatten(_)
Flatten(groups) ==
    IF groups = << >> THEN << >> ELSE Head(groups) \o Flatten(Tail(groups))

\* lines 390-403: docs.extend(group[1]) for every group of every store
RECURSIVE CollectDocs(_)
CollectDocs(ss) ==
    IF ss = << >> THEN << >>
    ELSE Flatten(MemberGroups(Head(ss))) \o CollectDocs(Tail(ss))

\* Python's < on two key tuples is defined when they are equal or both hold
\* a number; None against a number raises TypeError
Comparable(docs) ==
    \A i, j \in 1..Len(docs) :
        \/ key_set(docs[i]) = key_set(docs[j])
        \/ ~key_set(docs[i]).isNone /\ ~key_set(docs[j]).isNone

RECURSIVE Insert(_, _)
Insert(sorted, d) ==
    IF sorted = << >> THEN << d >>
    ELSE IF key_set(d).v < key_set(Head(sorted)).v
         THEN << d >> \o sorted
         ELSE << Head(sorted) >> \o Insert(Tail(sorted), d)

RECURSIVE StableSort(_)
StableSort(docs) ==
    IF docs = << >> THEN << >>
    ELSE Insert(StableSort(SubSeq(docs, 1, Len(docs) - 1)), docs[Len(docs)])

\* line 410: sorted(docs, key=key_set)
Sorted(docs) == StableSort(docs)

\* line 410: itertools.groupby: a new group whenever the key changes
RECURSIVE GroupRuns(_)
GroupRuns(docs) ==
    IF docs = << >> THEN << >>
    ELSE LET k == key_set(Head(docs))
             n == CHOOSE n \in 1..Len(docs) :
                      /\ \A i \in 1..n : key_set(docs[i]) = k
                      /\ n < Len(docs) => key_set(docs[n + 1]) # k
         IN  << [key |-> k, docs |-> SubSeq(docs, 1, n)] >>
             \o GroupRuns(SubSeq(docs, n + 1, Len(docs)))

\* lines 387-411
groupby(ss) ==
    LET docs == CollectDocs(ss)
    IN  IF Comparable(docs)
        THEN [status |-> "ok", groups |-> GroupRuns(Sorted(docs))]
        ELSE [status |-> "TypeError", groups |-> << >>]

\* lines 359-361: every document of every member store, store after store;
\* skip and limit are not used
RECURSIVE ConcatStore_query(_, _, _)
ConcatStore_query(ss, skip, limit) ==
    IF ss = << >> THEN << >>
    ELSE Head(ss) \o ConcatStore_query(Tail(ss), skip, limit)

\* the outcome of a method that raises before it touches a backing store
Unsupported(backing) == [status |-> "NotImplementedError", backing |-> backing]

ConcatStore_update_writing(ss, docs) ==
    [status |-> "ok", backing |-> [ss EXCEPT ![1] = ss[1] \o docs]]

\* line 299
ConcatStore_update(ss, docs) == Unsupported(ss)

\* line 420
ConcatStore_remove_docs(ss, crit) == Unsupported(ss)

\* arguments of the write methods
WriteDocs == { << >>, << MemberDoc(0, Val(1)) >> }
RemoveCriteria == { NoQuery, GroupField :> Scalar(1) }

Pagings == { << 0, 0 >>, << 1, 0 >>, << 0, 1 >>, << 1, 1 >> }

ConcatInit ==
    /\ \E n \in 1..MaxStores : \E f \in [1..n -> MemberShapes] :
          stores = [i \in 1..n |-> StoreOf(i, f[i])]
    /\ gb_out = [status |-> "none"]
    /\ cs_out = NoCall
    /\ JointIdle
    /\ GroupIdle
    /\ source = << >>
    /\ target = {}
    /\ target_lu_field = "last_updated"
    /\ query = NoQuery
    /\ incremental = TRUE
    /\ unit = 1
    /\ ufnKind = "copy"
    /\ lastRun = 1
    /\ pc = "idle"
    /\ BuilderRest

CallGroupby ==
    /\ stores # << >>
    /\ gb_out.status = "none" /\ cs_out.op # "query"
    /\ gb_out' = groupby(stores)
    /\ UNCHANGED << stores, cs_out >>
    /\ UNCHANGED << builderVars, jointVars, groupVars >>

\* ConcatStore.query
ConcatQuery ==
    /\ stores # << >>
    /\ cs_out.op # "query" /\ gb_out.status = "none"
    /\ \E paging \in Pagings :
          cs_out' = [status |-> "ok", op |-> "query",
                     docs |-> ConcatStore_query(stores, paging[1], paging[2]),
                     skip |-> paging[1], limit |-> paging[2], failed |-> cs_out.failed]
    /\ UNCHANGED << stores, gb_out >>
    /\ UNCHANGED << builderVars, jointVars, groupVars >>

\* ConcatStore.update
ConcatUpdate ==
    /\ stores # << >>
    /\ cs_out.op = "none" /\ gb_out.status = "none"
    /\ \E docs \in WriteDocs :
          LET r == ConcatStore_update(stores, docs)
          IN  /\ stores' = r.backing
              /\ cs_out' = [NoCall EXCEPT !.status = r.status, !.op = "update",
                                          !.failed = (r.status # "ok")]
    /\ UNCHANGED gb_out
    /\ UNCHANGED << builderVars, jointVars, groupVars >>

\* ConcatStore.remove_docs
ConcatRemoveDocs ==
    /\ stores # << >>
    /\ cs_out.op = "none" /\ gb_out.status = "none"
    /\ \E crit \in RemoveCriteria :
          LET r == ConcatStore_remove_docs(stores, crit)
          IN  /\ stores' = r.backing
              /\ cs_out' = [NoCall EXCEPT !.status = r.status, !.op = "remove_docs",
                                          !.failed = (r.status # "ok")]
    /\ UNCHANGED gb_out
    /\ UNCHANGED << builderVars, jointVars, groupVars >>

ConcatNext == CallGroupby \/ ConcatQuery \/ ConcatUpdate \/ ConcatRemoveDocs

ConcatSpec == ConcatInit /\ [][ConcatNext]_vars

(***************************************************************************)
(* JointStore.  The database holds the collections named by                *)
(* collection_names; a document has an _id, the key, a last-updated date   *)
(* and a field of its own collection.  query runs the aggregation pipeline *)
(* of _get_pipeline on the master collection.  Values that a pipeline      *)
(* stage computes are tagged with their BSON type.                         *)
(***************************************************************************)
MaxJoinDocs == 1

AllNames == << "a", "b", "c" >>
JointKeys == {1, 2}
JointLus == {1, 2}
last_updated_field == "last_updated"
OwnField == [a |-> "fa", b |-> "fb", c |-> "fc"]

JointDoc(id, k, lu, cname) ==
    ("_id" :> id) @@ (KeyField :> k) @@ (last_updated_field :> lu) @@ (OwnField[cname] :> id)

\* the keys and timestamps of the documents of one collection: up to
\* MaxJoinDocs documents
JointShapes ==
    { SortPairs(SetToSeq(S)) :
        S \in { T \in SUBSET [key : JointKeys, lu : JointLus] : Cardinality(T) <= MaxJoinDocs } }

\* the collection number c with these documents; ids are unique in the database
CollectionOf(c, ps) ==
    [i \in 1..Len(ps) |-> JointDoc(10 * c + i, ps[i].key, ps[i].lu, AllNames[c])]

JointCollections(c) == { CollectionOf(c, ps) : ps \in JointShapes }

NameIndex(cname) == CHOOSE i \in 1..Len(AllNames) : AllNames[i] = cname

\* self.collection_names, in the order given to the constructor
collection_names(db) == SubSeq(AllNames, 1, Cardinality(DOMAIN db))

Arr(s) == [t |-> "array", x |-> s]
Obj(d) == [t |-> "object", x |-> d]
Date(n) == [t |-> "date", x |-> n]
Missing == [t |-> "missing", x |-> 0]

\* lines 101-110: {"$lookup": {from: cname, localField: key, foreignField: key, as: cname}}
Lookup(row, cname, db) ==
    (cname :> Arr(SelectSeq(db[cname], LAMBDA d : d[KeyField] = row[KeyField]))) @@ row

\* lines 118-129: $replaceRoot to $mergeObjects of the first joined document
\* and $$ROOT; the later operand, $$ROOT, wins on a shared field
MergeRoot(row, cname) ==
    IF row[cname].x = << >> THEN row ELSE row @@ row[cname].x[1]

\* lines 131-138: $unwind with preserveNullAndEmptyArrays
Unwind(row, cname) ==
    IF row[cname].x = << >>
    THEN << Remove(row, cname) >>
    ELSE [i \in 1..Len(row[cname].x) |-> (cname :> Obj(row[cname].x[i])) @@ row]

\* lines 99-138: the stages of one joined collection, over all rows
JoinStage(rows, cname, db, merge) ==
    IF merge
    THEN [i \in 1..Len(rows) |-> MergeRoot(Lookup(rows[i], cname, db), cname)]
    ELSE Flatten([i \in 1..Len(rows) |-> Unwind(Lookup(rows[i], cname, db), cname)])

RECURSIVE Joined(_, _, _, _)
Joined(rows, names, db, merge) ==
    IF names = << >> THEN rows
    ELSE Joined(JoinStage(rows, Head(names), db, merge), Tail(names), db, merge)

\* the value of "$<cname>.<last_updated_field>" in a row: of an embedded
\* document the field, of an array of documents the array of their fields
FieldLu(row, cname) ==
    IF cname \notin DOMAIN row THEN Missing
    ELSE IF row[cname].t = "object" THEN Date(row[cname].x[last_updated_field])
    ELSE Arr([i \in 1..Len(row[cname].x) |-> row[cname].x[i][last_updated_field]])

\* BSON comparison order of the types: ... Object < Array < ... < Date
BsonRank(v) == IF v.t = "date" THEN 2 ELSE 1

RECURSIVE SeqLess(_, _)
SeqLess(a, b) ==
    IF b = << >> THEN FALSE
    ELSE IF a = << >> THEN TRUE
    ELSE IF Head(a) # Head(b) THEN Head(a) < Head(b)
    ELSE SeqLess(Tail(a), Tail(b))

BsonLess(a, b) ==
    \/ BsonRank(a) < BsonRank(b)
    \/ /\ BsonRank(a) = BsonRank(b)
       /\ IF a.t = "date" THEN a.x < b.x ELSE SeqLess(a.x, b.x)

\* {"$max": [e1, e2, ...]}: the greatest operand in BSON order; a missing
\* operand is ignored, an array operand is one value
MaxOf(ops) ==
    LET real == SelectSeq(ops, LAMBDA v : v.t # "missing")
    IN  IF real = << >> THEN Missing
        ELSE real[CHOOSE i \in 1..Len(real) : \A j \in 1..Len(real) : ~BsonLess(real[i], real[j])]

\* lines 141-149: $addFields of the max over the root's field and the field
\* under every collection name
AddLu(row, names) ==
    (last_updated_field :>
        MaxOf(<< Date(row[last_updated_field]) >> \o [i \in 1..Len(names) |-> FieldLu(row, names[i])]))
    @@ row

\* lines 158-162: $skip and $limit, each only if positive
SkipLimit(rows, skip, limit) ==
    LET skipped == IF skip > 0 THEN SubSeq(rows, skip + 1, Len(rows)) ELSE rows
    IN  IF limit > 0 /\ limit < Len(skipped) THEN SubSeq(skipped, 1, limit) ELSE skipped

\* line 100 compares names with `is not`: `same` tells whether the master's
\* name is the very object found in collection_names
ToJoin(names, m, same) ==
    SelectSeq(names, LAMBDA c : ~(same /\ c = m))

\* _get_pipeline and the aggregation on the master collection
JointQueryResult(db, m, merge, same, has_merge_objects, skip, limit) ==
    IF merge /\ ~has_merge_objects /\ ToJoin(collection_names(db), m, same) # << >>
    THEN [status |-> "Exception", docs |-> << >>]
    ELSE LET names == collection_names(db)
             rows == Joined(db[m], ToJoin(names, m, same), db, merge)
             withLu == [i \in 1..Len(rows) |-> AddLu(rows[i], names)]
         IN  [status |-> "ok", docs |-> SkipLimit(withLu, skip, limit)]

JointInit ==
    /\ \E n \in 2..Len(AllNames) : \E f \in [1..n -> JointShapes] :
          collections = [cname \in { AllNames[i] : i \in 1..n } |->
                            CollectionOf(NameIndex(cname), f[NameIndex(cname)])]
    /\ master \in DOMAIN collections
    /\ merge_at_root \in BOOLEAN
    /\ js_out = NoCall
    /\ stores = << >>
    /\ gb_out = [status |-> "none"]
    /\ cs_out = NoCall
    /\ GroupIdle
    /\ source = << >>
    /\ target = {}
    /\ target_lu_field = "last_updated"
    /\ query = NoQuery
    /\ incremental = TRUE
    /\ unit = 1
    /\ ufnKind = "copy"
    /\ lastRun = 1
    /\ pc = "idle"
    /\ BuilderRest

\* JointStore.query
JointQuery ==
    /\ master \in DOMAIN collections
    /\ js_out.op # "query"
    /\ \E same, has \in BOOLEAN : \E paging \in Pagings :
          LET r == JointQueryResult(collections, master, merge_at_root, same, has,
                                    paging[1], paging[2])
          IN  js_out' = [status |-> r.status, op |-> "query", docs |-> r.docs,
                         skip |-> paging[1], limit |-> paging[2], failed |-> js_out.failed]
    /\ UNCHANGED << collections, master, merge_at_root >>
    /\ UNCHANGED << builderVars, concatVars, groupVars >>

\* line 79
JointStore_update(db, docs) == Unsupported(db)

\* line 85
JointStore_ensure_index(db, key) == Unsupported(db)

\* line 231
JointStore_remove_docs(db, crit) == Unsupported(db)

JointFail(op, r) ==
    /\ collections' = r.backing
    /\ js_out' = [NoCall EXCEPT !.status = r.status, !.op = op, !.failed = (r.status # "ok")]
    /\ UNCHANGED << master, merge_at_root >>
    /\ UNCHANGED << builderVars, concatVars, groupVars >>

\* JointStore.update
JointUpdate ==
    /\ master \in DOMAIN collections
    /\ js_out.op = "none"
    /\ \E docs \in { << >>, << JointDoc(0, 1, 2, master) >> } :
          JointFail("update", JointStore_update(collections, docs))

\* JointStore.ensure_index
JointEnsureIndex ==
    /\ master \in DOMAIN collections
    /\ js_out.op = "none"
    /\ \E key \in { KeyField, last_updated_field } :
          JointFail("ensure_index", JointStore_ensure_index(collections, key))

\* JointStore.remove_docs
JointRemoveDocs ==
    /\ master \in DOMAIN collections
    /\ js_out.op = "none"
    /\ \E crit \in { NoQuery, KeyField :> Scalar(1) } :
          JointFail("remove_docs", JointStore_remove_docs(collections, crit))

JointNext == JointQuery \/ JointUpdate \/ JointEnsureIndex \/ JointRemoveDocs

JointSpec == JointInit /\ [][JointNext]_vars

(***************************************************************************)
(* Either composite store, and every method of it.                         *)
(***************************************************************************)
CompositeInit == JointInit \/ ConcatInit

CompositeNext == JointNext \/ ConcatNext

CompositeSpec == CompositeInit /\ [][CompositeNext]_vars

(***************************************************************************)
(* Facts about the stores used by the properties.                          *)
(***************************************************************************)
SourceKeySet == { source[i][KeyField] : i \in 1..Len(source) }
TargetHas(k) == \E d \in target : d[KeyField] = k
TargetLuOf(k) == (CHOOSE d \in target : d[KeyField] = k)[target_lu_field]
SourceLusOf(k) ==
    { lu_func_0(source[i][SourceLu]) : i \in { j \in 1..Len(source) : source[j][KeyField] = k } }

\* k is new or updated: no target document, or some source document of k is newer
NeedsBuild(k) ==
    \/ ~TargetHas(k)
    \/ \E slu \in SourceLusOf(k) : TargetLuOf(k) < slu

\* C1: every new-or-updated source key is returned by source_keys_updated,
\* also with duplicate source keys and with target keys absent from the source.
C1_Complete ==
    pc = "keys" => \A k \in SourceKeySet : NeedsBuild(k) => k \in keys_updated

C1_Witness ==
    /\ pc = "keys"
    /\ \E i, j \in 1..Len(source) : i # j /\ source[i][KeyField] = source[j][KeyField]
    /\ \E d \in target : d[KeyField] \notin SourceKeySet
    /\ \E k \in SourceKeySet : TargetHas(k) /\ NeedsBuild(k) /\ k \in keys_updated

\* every source document is matched by a target document at least as new
Quiescent ==
    \A i \in 1..Len(source) :
        /\ TargetHas(source[i][KeyField])
        /\ lu_func_0(source[i][SourceLu]) <= TargetLuOf(source[i][KeyField])

\* C2: when every source document has a target document at least as new,
\* source_keys_updated returns nothing.
C2_Quiescence == (pc = "keys" /\ Quiescent) => keys_updated = {}

\* C3: source_keys_updated returns exactly the new-or-updated source keys.
C3_Exact ==
    pc = "keys" => keys_updated = { k \in SourceKeySet : NeedsBuild(k) }

(***************************************************************************)
(* The builder cycle.                                                      *)
(***************************************************************************)
RunDone == pc = "idle" /\ hist # << >>

\* C4: a run that follows a run with no source change in between gets no
\* items and commits nothing (for a ufn that leaves the key and the
\* last-updated value alone).
C4_Idempotent ==
    ufnKind \in {"copy", "value"} =>
        \A n \in 2..Len(hist) :
            ~hist[n].changed => hist[n].n_items = 0 /\ hist[n].n_commits = 0

HasError(d, item) ==
    /\ "error" \in DOMAIN d
    /\ d["error"] = ErrMsg
    /\ KeyField \in DOMAIN d
    /\ d[KeyField] = item[KeyField]

\* C5: an item whose ufn raises still yields a document with the error
\* message and the item's key, processing goes on, and every other item of
\* the batch is committed as a batch without failures would commit it.
C5_Isolation ==
    /\ pc = "items" =>
          \A i \in 1..Len(outs) : fails[i] => HasError(outs[i], items[i])
    /\ RunDone =>
          /\ Len(committed) = Len(items)
          /\ \A i \in 1..Len(items) :
                IF fails[i]
                THEN HasError(committed[i], items[i])
                ELSE committed[i] =
                        Finalize(process_item(ufnKind, items[i], FALSE),
                                 target_lu_field, clock - 1)

C5_Witness ==
    /\ RunDone
    /\ \E i, j \in 1..Len(items) :
          /\ fails[i] /\ ~fails[j]
          /\ "error" \in DOMAIN committed[i]
          /\ "error" \notin DOMAIN committed[j]
          /\ \E d \in target : d[KeyField] = committed[j][KeyField] /\ "value" \in DOMAIN d

\* C9: every committed document carries the decoded last-updated value of
\* its source item under target.lu_field, no raw source field under another
\* name, a build time and no _id.
C9_Finalized ==
    RunDone =>
        \A i \in 1..Len(committed) :
            /\ committed[i][target_lu_field] = lu_func_0(items[i][SourceLu])
            /\ SourceLu # target_lu_field => SourceLu \notin DOMAIN committed[i]
            /\ "_bt" \in DOMAIN committed[i]
            /\ "_id" \notin DOMAIN committed[i]

(***************************************************************************)
(* get_criteria.                                                           *)
(***************************************************************************)
HasCons(c, f, x) ==
    \/ f \in DOMAIN c /\ c[f] = x
    \/ /\ "$and" \in DOMAIN c
       /\ \E i \in 1..Len(c["$and"]) :
             f \in DOMAIN c["$and"][i] /\ c["$and"][i][f] = x

AllDocs == { SourceDoc(1, k, lu) : k \in SourceKeys \cup {3}, lu \in Natives }

Conjunction(q, c, keys) ==
    /\ \A f \in DOMAIN q \ {"$and"} : HasCons(c, f, q[f])
    /\ "$and" \in DOMAIN q =>
          /\ "$and" \in DOMAIN c
          /\ \A i \in 1..Len(q["$and"]) :
                \E j \in 1..Len(c["$and"]) : c["$and"][j] = q["$and"][i]
    /\ HasCons(c, KeyField, In(keys))
    /\ \A d \in AllDocs : Match(d, c) <=> (Match(d, q) /\ d[KeyField] \in keys)

\* C6: in incremental mode get_criteria returns the conjunction of the
\* caller's query and the $in constraint on source.key, whatever the shape
\* of the query (the size guard's failure apart).
C6_Conjunction ==
    (incremental /\ pc \in {"items", "AttributeError"}) =>
        /\ pc = "items"
        /\ Conjunction(query0, criteria, keys_updated)

\* C7: get_criteria raises exactly when the size of the criteria is at least
\* the ceiling, and then no criteria is returned and the source is not queried.
C7_SizeGuard ==
    size >= 0 =>
        /\ size >= DocSizeLimit <=> pc = "RuntimeError"
        /\ size < DocSizeLimit <=> pc = "items"
        /\ pc = "RuntimeError" => criteria = NoQuery /\ items = << >>

C7_Witness ==
    /\ pc = "RuntimeError"
    /\ size = DocSizeLimit
    /\ incremental
    /\ keys_updated # {}

\* C8 as stated: without incremental, get_criteria returns the caller's query.
C8_Original ==
    (~incremental /\ pc # "idle") =>
        /\ pc = "items"
        /\ criteria = query0
        /\ ~ranKeys

\* C8 amended: without incremental, get_criteria does not run
\* source_keys_updated, leaves the query alone, and returns a criteria equal
\* to the query unless the query's size is at least the ceiling, when it
\* raises.
C8_NonIncremental ==
    (~incremental /\ pc # "idle") =>
        /\ ~ranKeys
        /\ keys_updated = {}
        /\ query = query0
        /\ size >= 0
        /\ size < DocSizeLimit => pc = "items" /\ criteria = query0
        /\ size >= DocSizeLimit => pc = "RuntimeError"

C8_Witness ==
    /\ ~incremental
    /\ pc = "items"
    /\ query0 # NoQuery
    /\ criteria = query0
    /\ Len(source) > 0

(***************************************************************************)
(* ConcatStore.groupby.                                                    *)
(***************************************************************************)
AllMemberDocs == UNION { { stores[i][j] : j \in 1..Len(stores[i]) } : i \in 1..Len(stores) }

GroupedOnce(groups) ==
    /\ \A d \in AllMemberDocs :
          \E n \in 1..Len(groups) :
             /\ groups[n].key = key_set(d)
             /\ Cardinality({ i \in 1..Len(groups[n].docs) : groups[n].docs[i] = d }) = 1
    /\ \A m, n \in 1..Len(groups) : groups[m].key = groups[n].key => m = n
    /\ \A n \in 1..Len(groups) : \A i \in 1..Len(groups[n].docs) :
          /\ groups[n].docs[i] \in AllMemberDocs
          /\ key_set(groups[n].docs[i]) = groups[n].key

\* C10: groupby yields, for every group-key value, exactly one group, holding
\* every document of every member store with that value.
C10_UnionGrouping ==
    gb_out.status # "none" =>
        /\ gb_out.status = "ok"
        /\ GroupedOnce(gb_out.groups)

\* the same, for member stores whose group-key values Python can order
C10_ComparableKeys ==
    (gb_out.status # "none" /\ Comparable(CollectDocs(stores))) =>
        /\ gb_out.status = "ok"
        /\ GroupedOnce(gb_out.groups)

(***************************************************************************)
(* JointStore.query.                                                       *)
(***************************************************************************)
MasterDocOf(row) == CHOOSE d \in { collections[master][i] : i \in 1..Len(collections[master]) } :
                        d["_id"] = row["_id"]

\* the timestamps of the documents of non-master collections joined to a row
JoinedLus(row) ==
    UNION { IF c \notin DOMAIN row THEN {}
            ELSE IF row[c].t = "object" THEN { row[c].x[last_updated_field] }
            ELSE { row[c].x[i][last_updated_field] : i \in 1..Len(row[c].x) } :
            c \in DOMAIN collections \ {master} }

SetMax(S) == CHOOSE x \in S : \A y \in S : y <= x

Freshest(row) == SetMax({ MasterDocOf(row)[last_updated_field] } \cup JoinedLus(row))

\* every collection holds at most one document per key
UniqueKeys ==
    \A c \in DOMAIN collections : \A i, j \in 1..Len(collections[c]) :
        collections[c][i][KeyField] = collections[c][j][KeyField] => i = j

\* C11: every row of JointStore.query carries, as its last-updated value, the
\* maximum of the master document's timestamp and the timestamps of the
\* documents joined to it for the same key, with merge_at_root false and true.
C11_JoinFreshness ==
    (js_out.op = "query" /\ js_out.status = "ok" /\ UniqueKeys) =>
        \A i \in 1..Len(js_out.docs) :
            /\ js_out.docs[i][last_updated_field].t = "date"
            /\ js_out.docs[i][last_updated_field].x = Freshest(js_out.docs[i])

\* the same for merge_at_root false alone
C11_Nested ==
    (js_out.op = "query" /\ js_out.status = "ok" /\ UniqueKeys /\ ~merge_at_root) =>
        \A i \in 1..Len(js_out.docs) :
            /\ js_out.docs[i][last_updated_field].t = "date"
            /\ js_out.docs[i][last_updated_field].x = Freshest(js_out.docs[i])

C11_NestedWitness ==
    /\ js_out.op = "query" /\ js_out.status = "ok" /\ ~merge_at_root
    /\ \E i \in 1..Len(js_out.docs) :
          /\ MasterDocOf(js_out.docs[i])[last_updated_field] < js_out.docs[i][last_updated_field].x
          /\ Cardinality(DOMAIN js_out.docs[i] \cap (DOMAIN collections \ {master})) = 2

(***************************************************************************)
(* The unsupported operations of the composite stores.                     *)
(***************************************************************************)
UnsupportedOps == {"update", "ensure_index", "remove_docs"}

\* C12: update, ensure_index and remove_docs of JointStore and update and
\* remove_docs of ConcatStore raise NotImplementedError for every argument
\* and write nothing to a backing collection or member store, and a query or
\* groupby that follows returns what it returns on the untouched stores.
C12_Unsupported ==
    [][ /\ collections' = collections
        /\ stores' = stores
        /\ (js_out' # js_out /\ js_out'.op \in UnsupportedOps) =>
              js_out'.status = "NotImplementedError"
        /\ (cs_out' # cs_out /\ cs_out'.op \in UnsupportedOps) =>
              cs_out'.status = "NotImplementedError"
        /\ (js_out' # js_out /\ js_out'.op = "query") =>
              \E same, has \in BOOLEAN :
                 LET r == JointQueryResult(collections, master, merge_at_root, same, has,
                                           js_out'.skip, js_out'.limit)
                 IN  js_out'.status = r.status /\ js_out'.docs = r.docs
        /\ (cs_out' # cs_out /\ cs_out'.op = "query") =>
              cs_out'.docs = ConcatStore_query(stores, cs_out'.skip, cs_out'.limit)
        /\ gb_out' # gb_out => gb_out' = groupby(stores)
      ]_vars

C12_Witness ==
    /\ cs_out.op = "query"
    /\ cs_out.failed
    /\ cs_out.docs # << >>
    /\ Len(stores) = 2

(***************************************************************************)
(* ConcatStore.query.                                                      *)
(***************************************************************************)
IsPrefix(a, b) == Len(a) <= Len(b) /\ a = SubSeq(b, 1, Len(a))

\* C13: ConcatStore.query yields the member stores' documents in member
\* order, without the first `skip` documents of the combined result and, for
\* a positive limit, at most `limit` documents.
C13_Paging ==
    cs_out.op = "query" =>
        LET all == Flatten(stores)
            rest == SubSeq(all, cs_out.skip + 1, Len(all))
        IN  /\ cs_out.status = "ok"
            /\ IsPrefix(cs_out.docs, rest)
            /\ cs_out.limit > 0 => Len(cs_out.docs) <= cs_out.limit
            /\ cs_out.limit = 0 => cs_out.docs = rest

\* the same for a call without skip and limit
C13_Concatenation ==
    (cs_out.op = "query" /\ cs_out.skip = 0 /\ cs_out.limit = 0) =>
        cs_out.status = "ok" /\ cs_out.docs = Flatten(stores)

(***************************************************************************)
(* GroupBuilder.get_items.                                                 *)
(***************************************************************************)
NumGroups == Cardinality({ items[i][KeyField] : i \in 1..Len(items) })

\* C14: once get_items has computed its groups, total is the number of groups
\* times n_items_per_group if that is declared as an integer >= 1, and is
\* still None if no n_items_per_group is declared.
C14_Total ==
    (pc = "items" /\ outs = << >>) =>
        /\ (n_items_per_group.declared /\ n_items_per_group.isInt /\ n_items_per_group.v >= 1) =>
              total = Val(NumGroups * n_items_per_group.v)
        /\ ~n_items_per_group.declared => total = None

\* the part of C14 about a declared integer count
C14_Declared ==
    (pc = "items" /\ outs = << >>
       /\ n_items_per_group.declared /\ n_items_per_group.isInt /\ n_items_per_group.v >= 1) =>
        total = Val(NumGroups * n_items_per_group.v)

(***************************************************************************)
(* get_criteria and the caller's query.                                    *)
(***************************************************************************)
\* the constraints on source.key that get_criteria added to the caller's "$and"
AddedToAnd == Len(criteria["$and"]) - Len(query0["$and"])

\* C15: get_criteria leaves the builder's query, the list under "$and"
\* included, as the caller passed it, and the criteria of every run holds one
\* constraint on source.key more than the caller's query.
C15_QueryUntouched ==
    /\ query = query0
    /\ (pc = "items" /\ "$and" \in DOMAIN query0) => AddedToAnd = 1

\* the second half of C15 alone, which fails from the second run on
C15_OneConstraint ==
    (pc = "items" /\ "$and" \in DOMAIN query0) => AddedToAnd = 1

\* queries without "$and" are left alone
C15_NoAnd ==
    "$and" \notin DOMAIN query0 => query = query0

(***************************************************************************)
(* Failed items and the following run.                                     *)
(***************************************************************************)
\* the decoded last-updated value of key k in a source with unique keys
LuIn(src, k) == lu_func_0(src[CHOOSE i \in 1..Len(src) : src[i][KeyField] = k][SourceLu])

\* C16: an item for which ufn raised, and whose error document was
\* committed, is not selected by the next run if the source did not change,
\* and is selected by the next run once its source document has a strictly
\* greater last-updated value.
C16_NoRetry ==
    \A n \in 2..Len(hist) : \A k \in hist[n - 1].failed :
        /\ ~hist[n].changed => k \notin hist[n].selected
        /\ LuIn(hist[n].source, k) > LuIn(hist[n - 1].source, k) => k \in hist[n].selected

\* the second half of C16 alone
C16_RetryAfterChange ==
    \A n \in 2..Len(hist) : \A k \in hist[n - 1].failed :
        LuIn(hist[n].source, k) > LuIn(hist[n - 1].source, k) => k \in hist[n].selected

\* the first half of C16 for a source whose timestamps are all written with
\* a fraction or all without
SameFormat(src) == \A i, j \in 1..Len(src) : (src[i][SourceLu] % Base = 0) = (src[j][SourceLu] % Base = 0)

C16_SameFormat ==
    \A n \in 2..Len(hist) : \A k \in hist[n - 1].failed :
        (~hist[n].changed /\ SameFormat(hist[n].source)) => k \notin hist[n].selected

====
